---------------------------- MODULE Spec2Model ----------------------------
(***************************************************************************)
(* Model of the Al-Kafeel book extractor (src/src/alkafeel_extractor.py).  *)
(* Strings are sequences of one-character strings, so that parsing,        *)
(* pattern matching and base64 decoding are computed character by          *)
(* character, the way urllib, re and binascii compute them.                *)
(***************************************************************************)
EXTENDS Integers, Sequences, FiniteSets, TLC

VARIABLES
    url,              \* argument of extract_book / validate_url / extract_book_id
    now,              \* the clock read by datetime.now()
    pc,               \* position of the extract_book coroutine
    extraction_start, \* local of extract_book: <<>> before entry, <<t>> after
    url_valid,        \* value returned by validate_url: <<>> before the call
    book_id,          \* local book_id: <<>> unset, <<id>> set
    browser,          \* local browser: "None", "open" or "closed"
    opened,           \* number of browser sessions launched
    closed,           \* number of browser.close() calls
    steps,            \* the pipeline functions called so far, in call order
    frames,           \* the iframes of the loaded page (environment)
    iframe_data,      \* local iframe_data: <<>> or <<dict>>
    content,          \* argument of extract_pdf_data
    pdf_data_b64,     \* local pdf_data_b64: <<>> (None) or <<payload>>
    pdf_path,         \* value returned by decode_and_save_pdf: <<>> (None) or <<path>>
    pdfs,             \* files under output_dir/pdfs: file name -> bytes
    metadata,         \* files under output_dir/metadata: file name -> record
    shots,            \* screenshot captures attempted: sequence of frame numbers
    retval,           \* value of the return statement reached, before finally runs
    result,           \* value returned by extract_book: <<>> or <<dict>>
    escaped,          \* exception that left extract_book: <<>> or <<message>>
    io_log,           \* what the file system did on each write of a PDF or metadata file
    urls,             \* argument of extract_multiple_books
    idx,              \* loop index i of extract_multiple_books
    results,          \* local results of extract_multiple_books: <<>> or <<dict>>
    run_log,          \* one record per finished extract_book call of a batch
    command,          \* the command of main.py that runs, "" for none
    continue_on_error,\* the flag --continue-on-error
    exit_status       \* the status the process exited with: <<>> or <<n>>

vars == <<url, now, pc, extraction_start, url_valid, book_id, browser, opened,
          closed, steps, frames, iframe_data, content, pdf_data_b64, pdf_path,
          pdfs, metadata, shots, retval, result, escaped, io_log, urls, idx,
          results, run_log, command, continue_on_error, exit_status>>

---------------------------------------------------------------------------
(* Bounds of the model.                                                    *)

MaxClock == 2        \* the clock takes the values 0..MaxClock
MaxPayloadLen == 5   \* longest payload handed to the codec on its own
MaxBytesLen == 3     \* longest byte string encoded and handed to the codec
MaxFrames == 2       \* most iframes on a page handed to the frame scan

---------------------------------------------------------------------------
(* Character strings.                                                      *)

None == <<>>
Some(v) == <<v>>

Min(S) == CHOOSE x \in S : \A y \in S : x <= y

\* str.find(c, from): least index >= from holding c, 0 when there is none
Find(s, c, from) ==
    LET hits == {i \in from..Len(s) : s[i] = c}
    IN  IF hits = {} THEN 0 ELSE Min(hits)

\* s[i:] in Python, 1-based
Tail_(s, i) == SubSeq(s, i, Len(s))

\* s starts with lit at position i
MatchLit(s, i, lit) ==
    /\ i >= 1
    /\ i + Len(lit) - 1 <= Len(s)
    /\ SubSeq(s, i, i + Len(lit) - 1) = lit

\* the Python operator "sub in s"
Contains(s, sub) == \E i \in 1..(Len(s) + 1) : MatchLit(s, i, sub)

Digits == <<"0", "1", "2", "3", "4", "5", "6", "7", "8", "9">>

RECURSIVE ToDigits(_)
ToDigits(n) ==
    IF n < 10 THEN <<Digits[n + 1]>>
    ELSE ToDigits(n \div 10) \o <<Digits[(n % 10) + 1]>>

LowerLetters == {"a", "b", "c", "d", "e", "f", "g", "h", "i", "j", "k", "l", "m",
                 "n", "o", "p", "q", "r", "s", "t", "u", "v", "w", "x", "y", "z"}
UpperLetters == {"A", "B", "C", "D", "E", "F", "G", "H", "I", "J", "K", "L", "M",
                 "N", "O", "P", "Q", "R", "S", "T", "U", "V", "W", "X", "Y", "Z"}
DigitChars == {"0", "1", "2", "3", "4", "5", "6", "7", "8", "9"}

---------------------------------------------------------------------------
(* urllib.parse.urlparse, for URLs without whitespace, ';', '[' or ']'.    *)

SchemeChars == LowerLetters \cup UpperLetters \cup DigitChars \cup {"+", "-", "."}

urlparse(u) ==
    LET i == Find(u, ":", 1)
        hasScheme == /\ i > 1
                     /\ u[1] \in LowerLetters \cup UpperLetters
                     /\ \A k \in 1..(i - 1) : u[k] \in SchemeChars
        scheme == IF hasScheme THEN SubSeq(u, 1, i - 1) ELSE <<>>
        r1 == IF hasScheme THEN Tail_(u, i + 1) ELSE u
        hasNetloc == MatchLit(r1, 1, <<"/", "/">>)
        cuts == {Find(r1, c, 3) : c \in {"/", "?", "#"}} \ {0}
        delim == IF cuts = {} THEN Len(r1) + 1 ELSE Min(cuts)
        netloc == IF hasNetloc THEN SubSeq(r1, 3, delim - 1) ELSE <<>>
        r2 == IF hasNetloc THEN Tail_(r1, delim) ELSE r1
        h == Find(r2, "#", 1)
        fragment == IF h > 0 THEN Tail_(r2, h + 1) ELSE <<>>
        r3 == IF h > 0 THEN SubSeq(r2, 1, h - 1) ELSE r2
        q == Find(r3, "?", 1)
        query == IF q > 0 THEN Tail_(r3, q + 1) ELSE <<>>
        path == IF q > 0 THEN SubSeq(r3, 1, q - 1) ELSE r3
    IN  [scheme |-> scheme, netloc |-> netloc, path |-> path,
         query |-> query, fragment |-> fragment]

LibraryDomain == <<"l", "i", "b", "r", "a", "r", "y", ".", "a", "l", "k", "a", "f", "e", "e", "l", ".", "n", "e", "t">>
BookPath == <<"/", "d", "i", "c", "/", "b", "o", "o", "k", "/">>

validate_url(u) ==
    LET parsed == urlparse(u)
        is_alkafeel == Contains(parsed.netloc, LibraryDomain)
        has_book_path == Contains(parsed.path, BookPath)
    IN  IF ~is_alkafeel THEN FALSE
        ELSE IF ~has_book_path THEN FALSE
        ELSE TRUE

\* datetime.now().strftime(...): the clock value printed in decimal
strftime(t) == ToDigits(t)

BookPrefix == <<"b", "o", "o", "k", "_">>

\* end (exclusive) of the longest run of characters outside stop, from i
RECURSIVE RunEnd(_, _, _)
RunEnd(s, i, stop) ==
    IF i > Len(s) \/ s[i] \in stop THEN i ELSE RunEnd(s, i + 1, stop)

\* re.search(r'[?&]e=([^&]+)', u): start positions at which the pattern matches
BookIdMatches(u) ==
    {i \in 1..Len(u) : /\ u[i] \in {"?", "&"}
                       /\ MatchLit(u, i + 1, <<"e", "=">>)
                       /\ RunEnd(u, i + 3, {"&"}) > i + 3}

\* every URL gets the timestamp id
extract_book_id_timestamp(u, t) == BookPrefix \o strftime(t)

extract_book_id(u, t) ==
    IF BookIdMatches(u) # {}
    THEN LET i == Min(BookIdMatches(u))
         IN  SubSeq(u, i + 3, RunEnd(u, i + 3, {"&"}) - 1)
    ELSE BookPrefix \o strftime(t)

---------------------------------------------------------------------------
(* URLs handed to the URL functions: scheme, authority, path and tail are  *)
(* drawn independently and concatenated.                                   *)

SchemeHttps == <<"h", "t", "t", "p", "s", ":", "/", "/">>
HostGoogle == <<"g", "o", "o", "g", "l", "e", ".", "c", "o", "m">>
HostSuffixed == <<"l", "i", "b", "r", "a", "r", "y", ".", "a", "l", "k", "a", "f", "e", "e", "l", ".", "n", "e", "t", ".", "e", "v", "i", "l", ".", "c", "o", "m">>
HostPrefixed == <<"m", "y", "l", "i", "b", "r", "a", "r", "y", ".", "a", "l", "k", "a", "f", "e", "e", "l", ".", "n", "e", "t">>
HostUserinfo == <<"l", "i", "b", "r", "a", "r", "y", ".", "a", "l", "k", "a", "f", "e", "e", "l", ".", "n", "e", "t", "@", "e", "v", "i", "l", ".", "c", "o", "m">>
HostWithPort == <<"l", "i", "b", "r", "a", "r", "y", ".", "a", "l", "k", "a", "f", "e", "e", "l", ".", "n", "e", "t", ":", "4", "4", "3">>
PathBookNoSlash == <<"/", "d", "i", "c", "/", "b", "o", "o", "k">>
PathOther == <<"/", "o", "t", "h", "e", "r", "/", "p", "a", "t", "h">>
PathNested == <<"/", "x", "/", "d", "i", "c", "/", "b", "o", "o", "k", "/", "y">>
TailId == <<"?", "e", "=", "a", "b">>
TailIdFirst == <<"?", "e", "=", "a", "b", "&", "o", "=", "p">>
TailIdLast == <<"?", "o", "=", "p", "&", "e", "=", "a", "b">>
TailOther == <<"?", "o", "=", "p">>
TailEmptyId == <<"?", "e", "=", "&", "o", "=", "p">>
TailIdFragment == <<"?", "e", "=", "a", "b", "#", "f">>
TailFragment == <<"#", "f">>
TailTwoIds == <<"?", "e", "=", "a", "&", "e", "=", "b">>
TailLookalike == <<"?", "x", "e", "=", "a", "b">>
TailFragmentId == <<"?", "o", "=", "p", "#", "&", "e", "=", "z", "z">>

UrlSchemes == {<<>>, SchemeHttps}
UrlHosts == {<<>>, LibraryDomain, HostGoogle, HostSuffixed, HostPrefixed,
             HostUserinfo, HostWithPort}
UrlPaths == {<<>>, BookPath, PathBookNoSlash, PathOther, PathNested}
UrlTails == {<<>>, TailId, TailIdFirst, TailIdLast, TailOther, TailEmptyId,
             TailIdFragment, TailFragment, TailTwoIds, TailLookalike,
             TailFragmentId}

UrlInputs == {s \o h \o p \o q :
                 s \in UrlSchemes, h \in UrlHosts, p \in UrlPaths, q \in UrlTails}


---------------------------------------------------------------------------
(* extract_pdf_data: re.search with each pattern in turn.                  *)

Quotes == {"\"", "'"}
Whitespace == {" ", "\n", "\t", "\r"}

VarPdfDataLit == <<"v", "a", "r", " ", "p", "d", "f", "D", "a", "t", "a", " ", "=", " ">>
PdfDataLit == <<"p", "d", "f", "D", "a", "t", "a">>
DataUriLit == <<"d", "a", "t", "a", ":", "a", "p", "p", "l", "i", "c", "a", "t", "i", "o", "n", "/", "p", "d", "f", ";", "b", "a", "s", "e", "6", "4", ",">>
PdfHeaderLit == <<"J", "V", "B", "E", "R", "i">>

\* end (exclusive) of the longest run of characters inside set, from i
RECURSIVE SkipWhile(_, _, _)
SkipWhile(s, i, set) ==
    IF i > Len(s) \/ s[i] \notin set THEN i ELSE SkipWhile(s, i + 1, set)

IsQuoteAt(s, i) == i >= 1 /\ i <= Len(s) /\ s[i] \in Quotes

\* ([^"']+)["'] at position i: the group, or None when it does not match
GroupAt(s, i) ==
    LET e == RunEnd(s, i, Quotes)
    IN  IF e > i /\ e <= Len(s) THEN Some(SubSeq(s, i, e - 1)) ELSE None

\* var pdfData = ["']([^"']+)["'] at position i
PdfPatternAt(s, i) ==
    IF MatchLit(s, i, VarPdfDataLit) /\ IsQuoteAt(s, i + Len(VarPdfDataLit))
    THEN GroupAt(s, i + Len(VarPdfDataLit) + 1)
    ELSE None

\* pdfData\s*=\s*["']([^"']+)["'] at position i
LoosePatternAt(s, i) ==
    LET j == SkipWhile(s, i + Len(PdfDataLit), Whitespace)
        k == SkipWhile(s, j + 1, Whitespace)
    IN  IF /\ MatchLit(s, i, PdfDataLit)
           /\ MatchLit(s, j, <<"=">>)
           /\ IsQuoteAt(s, k)
        THEN GroupAt(s, k + 1)
        ELSE None

\* the group starts at the scheme of the URI instead of after the comma
DataUriPatternAtWhole(s, i) ==
    IF IsQuoteAt(s, i) /\ MatchLit(s, i + 1, DataUriLit)
    THEN GroupAt(s, i + 1)
    ELSE None

\* ["']data:application/pdf;base64,([^"']+)["'] at position i
DataUriPatternAt(s, i) ==
    IF IsQuoteAt(s, i) /\ MatchLit(s, i + 1, DataUriLit)
    THEN GroupAt(s, i + 1 + Len(DataUriLit))
    ELSE None

\* ["'](JVBERi[^"']+)["'] at position i
HeaderPatternAt(s, i) ==
    IF /\ IsQuoteAt(s, i)
       /\ MatchLit(s, i + 1, PdfHeaderLit)
       /\ GroupAt(s, i + 1 + Len(PdfHeaderLit)) # None
    THEN GroupAt(s, i + 1)
    ELSE None

\* pattern k of the four, in the order the code tries them, at position i
PatternAt(k, s, i) ==
    CASE k = 1 -> PdfPatternAt(s, i)
      [] k = 2 -> LoosePatternAt(s, i)
      [] k = 3 -> DataUriPatternAt(s, i)
      [] k = 4 -> HeaderPatternAt(s, i)

\* the positions of s at which pattern k matches
PatternHits(k, s) == {i \in 1..Len(s) : PatternAt(k, s, i) # None}

\* re.search(pattern k, s): the group of the leftmost match, None without one
Search(k, s) ==
    IF PatternHits(k, s) = {} THEN None ELSE PatternAt(k, s, Min(PatternHits(k, s)))

\* the loop over alternative_patterns, from position n of the list
RECURSIVE AlternativeLoop(_, _)
AlternativeLoop(s, n) ==
    IF n > 3 THEN None
    ELSE IF Search(n + 1, s) # None THEN Search(n + 1, s)
    ELSE AlternativeLoop(s, n + 1)

\* the pattern whose match starts leftmost in the text wins
extract_pdf_data_leftmost(c) ==
    LET ks == {k \in 1..4 : PatternHits(k, c) # {}}
        first(k) == Min(PatternHits(k, c))
    IN  IF ks = {} THEN None
        ELSE Search(CHOOSE k \in ks : \A m \in ks :
                              first(k) < first(m) \/ (first(k) = first(m) /\ k <= m), c)

extract_pdf_data(c) ==
    IF Search(1, c) # None
    THEN Search(1, c)
    ELSE AlternativeLoop(c, 1)


---------------------------------------------------------------------------
(* base64.b64decode(s) with validate=False: binascii.a2b_base64.           *)

Base64Alphabet == <<"A", "B", "C", "D", "E", "F", "G", "H", "I", "J", "K", "L", "M", "N", "O", "P", "Q", "R", "S", "T", "U", "V", "W", "X", "Y", "Z", "a", "b", "c", "d", "e", "f", "g", "h", "i", "j", "k", "l", "m", "n", "o", "p", "q", "r", "s", "t", "u", "v", "w", "x", "y", "z", "0", "1", "2", "3", "4", "5", "6", "7", "8", "9", "+", "/">>

Base64Chars == {Base64Alphabet[i] : i \in 1..64}

\* table_a2b_base64: the six-bit value of an alphabet character
Base64Value(c) == (CHOOSE i \in 1..64 : Base64Alphabet[i] = c) - 1

\* a character outside ASCII, which str -> bytes conversion rejects
NonAscii == "U+00E9"

DecodeError == [ok |-> FALSE, data |-> <<>>]

\* the decoding loop: i is the read position, quad_pos the position inside
\* the current group of four, leftchar the bits carried over, pads the
\* count of '=' seen in a row, out the bytes written so far
RECURSIVE a2b_base64(_, _, _, _, _, _)
a2b_base64(s, i, quad_pos, leftchar, pads, out) ==
    IF i > Len(s)
    THEN IF quad_pos # 0 THEN DecodeError ELSE [ok |-> TRUE, data |-> out]
    ELSE IF s[i] = "="
    THEN IF quad_pos >= 2 /\ quad_pos + pads + 1 >= 4
         THEN [ok |-> TRUE, data |-> out]
         ELSE a2b_base64(s, i + 1, quad_pos, leftchar,
                         IF quad_pos >= 2 THEN pads + 1 ELSE pads, out)
    ELSE IF s[i] \notin Base64Chars
    THEN a2b_base64(s, i + 1, quad_pos, leftchar, pads, out)
    ELSE LET v == Base64Value(s[i])
         IN  CASE quad_pos = 0 ->
                    a2b_base64(s, i + 1, 1, v, 0, out)
               [] quad_pos = 1 ->
                    a2b_base64(s, i + 1, 2, v % 16, 0,
                               Append(out, (leftchar * 4 + v \div 16) % 256))
               [] quad_pos = 2 ->
                    a2b_base64(s, i + 1, 3, v % 4, 0,
                               Append(out, (leftchar * 16 + v \div 4) % 256))
               [] quad_pos = 3 ->
                    a2b_base64(s, i + 1, 0, 0, 0,
                               Append(out, (leftchar * 64 + v) % 256))

b64decode(s) ==
    IF \E i \in 1..Len(s) : s[i] = NonAscii
    THEN DecodeError
    ELSE a2b_base64(s, 1, 0, 0, 0, <<>>)

PdfSuffix == <<".", "p", "d", "f">>

\* the outcomes of open(pdf_path, 'wb') followed by write(pdf_data)
WriteOutcomes == {"ok", "open_fails", "write_fails"}

\* the subdirectories made by __init__ are flat: a file name with a path
\* separator names a directory that does not exist, and open() raises
InDirectory(filename) == \A i \in 1..Len(filename) : filename[i] # "/"

\* decode_and_save_pdf: the value returned, the files left under pdfs/
\* given the files there before, and what the file system did (fs): "none"
\* when open() was not reached, "no_directory" when the path names a missing
\* directory, otherwise the answer io of the file system
decode_and_save_pdf(b64, id, files, io) ==
    LET decoded == b64decode(b64)
        pdf_filename == id \o PdfSuffix
    IN  IF ~decoded.ok THEN [ret |-> None, files |-> files, fs |-> "none"]
        ELSE IF ~InDirectory(pdf_filename)
        THEN [ret |-> None, files |-> files, fs |-> "no_directory"]
        ELSE IF io = "open_fails" THEN [ret |-> None, files |-> files, fs |-> io]
        ELSE IF io = "write_fails"
        THEN [ret |-> None, files |-> (pdf_filename :> <<>>) @@ files, fs |-> io]
        ELSE [ret |-> Some(pdf_filename),
              files |-> (pdf_filename :> decoded.data) @@ files, fs |-> io]

\* the record of one file-system answer, appended to io_log
LogIo(dir, fs) == IF fs = "none" THEN io_log ELSE Append(io_log, [dir |-> dir, fs |-> fs])

---------------------------------------------------------------------------
(* extract_iframe_content: the scan over the iframes of the page.          *)

MinContentLength == 100

\* str.strip()
RECURSIVE StripLeft(_)
StripLeft(s) ==
    IF s # <<>> /\ Head(s) \in Whitespace THEN StripLeft(Tail(s)) ELSE s

RECURSIVE StripRight(_)
StripRight(s) ==
    IF s # <<>> /\ s[Len(s)] \in Whitespace
    THEN StripRight(SubSeq(s, 1, Len(s) - 1))
    ELSE s

Strip(s) == StripRight(StripLeft(s))

\* An iframe of the page, as the browser presents it:
\*   src    the src attribute
\*   frame  what content_frame() does: "ok", "none" (returns None), "raise"
\*   text   what text_content('body') returns (<<>> for None or empty)
\*   shot   what page.screenshot() does: "ok" or "raise"
Frame(src, frame, text, shot) ==
    [src |-> src, frame |-> frame, text |-> text, shot |-> shot]

\* a screenshot capture that raises ends the frame's turn: the scan goes on
\* with the next frame
RECURSIVE ScanFramesShotAborts(_, _, _)
ScanFramesShotAborts(fr, i, taken) ==
    IF i >= Len(fr) THEN [ret |-> None, shots |-> taken]
    ELSE LET f == fr[i + 1]
         IN  IF f.frame # "ok" THEN ScanFramesShotAborts(fr, i + 1, taken)
             ELSE IF f.text = <<>> \/ Len(Strip(f.text)) < MinContentLength
             THEN ScanFramesShotAborts(fr, i + 1, taken)
             ELSE IF f.shot # "ok"
             THEN ScanFramesShotAborts(fr, i + 1,
                                       Append(taken, [n |-> i + 1, saved |-> FALSE]))
             ELSE [ret |-> Some([iframe_index |-> i + 1,
                                 iframe_src |-> f.src,
                                 content |-> f.text,
                                 content_length |-> Len(f.text)]),
                   shots |-> Append(taken, [n |-> i + 1, saved |-> TRUE])]

\* the loop over iframe_elements from index i (0-based, as enumerate gives
\* it); taken is the list of screenshot captures attempted so far
RECURSIVE ScanFrames(_, _, _)
ScanFrames(fr, i, taken) ==
    IF i >= Len(fr) THEN [ret |-> None, shots |-> taken]
    ELSE LET f == fr[i + 1]
         IN  IF f.frame # "ok" THEN ScanFrames(fr, i + 1, taken)
             ELSE IF f.text = <<>> \/ Len(Strip(f.text)) < MinContentLength
             THEN ScanFrames(fr, i + 1, taken)
             ELSE [ret |-> Some([iframe_index |-> i + 1,
                                 iframe_src |-> f.src,
                                 content |-> f.text,
                                 content_length |-> Len(f.text)]),
                   shots |-> Append(taken, [n |-> i + 1, saved |-> f.shot = "ok"])]

\* query is what page.query_selector_all('iframe') does: "ok" or "raise"
extract_iframe_content(fr, query) ==
    IF query = "raise" THEN [ret |-> None, shots |-> <<>>]
    ELSE IF fr = <<>> THEN [ret |-> None, shots |-> <<>>]
    ELSE ScanFrames(fr, 0, <<>>)

---------------------------------------------------------------------------
(* Texts handed to extract_pdf_data: three segments, each a pattern form   *)
(* around a payload, a broken form, or text without a form.                *)

PayloadPdf == <<"J", "V", "B", "E", "R", "i", "0", "x">>
PayloadOther == <<"Q", "U", "J", "D", "\n", "R", "A", "=", "=">>

Payloads == {PayloadPdf, PayloadOther}

\* the four forms of the page script, around payload p
FormVar(p) == VarPdfDataLit \o <<"\"">> \o p \o <<"\"", ";">>
FormLoose(p) == PdfDataLit \o <<"=", "'">> \o p \o <<"'", ";">>
FormDataUri(p) == <<"\"">> \o DataUriLit \o p \o <<"\"">>
FormHeader(p) == <<"'">> \o p \o <<"'">>

Form(k, p) ==
    CASE k = 1 -> FormVar(p)
      [] k = 2 -> FormLoose(p)
      [] k = 3 -> FormDataUri(p)
      [] k = 4 -> FormHeader(p)

\* the payloads a form can carry: the raw form needs the PDF header
FormPayloads(k) == IF k = 4 THEN {PayloadPdf} ELSE Payloads

NoiseHtml == <<"<", "h", "t", "m", "l", ">", "\n">>
NoiseOtherVar == <<"v", "a", "r", " ", "o", "t", "h", "e", "r", "D", "a", "t", "a", " ", "=", " ", "1", ";">>
BrokenEmpty == <<"v", "a", "r", " ", "p", "d", "f", "D", "a", "t", "a", " ", "=", " ", "\"", "\"", ";">>
BrokenOpen == <<"p", "d", "f", "D", "a", "t", "a", " ", "=", " ", "\"", "Q", "U", "J", "D">>
BrokenBare == <<"d", "a", "t", "a", ":", "a", "p", "p", "l", "i", "c", "a", "t", "i", "o", "n", "/", "p", "d", "f", ";", "b", "a", "s", "e", "6", "4", ",", "Q", "U", "J", "D">>

Noise == {<<>>, NoiseHtml, NoiseOtherVar}

Segments ==
    Noise \cup {BrokenEmpty, BrokenOpen, BrokenBare}
          \cup {Form(k, p) : k \in 1..4, p \in {PayloadPdf}}
          \cup {Form(k, PayloadOther) : k \in 1..3}

ContentInputs == {a \o b \o c : a \in Segments, b \in Segments, c \in Segments}

---------------------------------------------------------------------------
(* Payloads handed to the codec on its own: every string of at most        *)
(* MaxPayloadLen characters over a few alphabet characters, the pad and a  *)
(* character outside the alphabet.                                         *)

CodecChars == {"A", "/", "=", "!"}

RECURSIVE StringsUpTo(_, _)
StringsUpTo(chars, n) ==
    IF n = 0 THEN {<<>>}
    ELSE LET shorter == StringsUpTo(chars, n - 1)
         IN  shorter \cup {Append(s, c) : s \in shorter, c \in chars}

CodecInputs == StringsUpTo(CodecChars, MaxPayloadLen) \cup {<<"A", "A", NonAscii, "A", "A">>}

IdAb == <<"a", "b">>
IdNested == <<"a", "/", "b">>

CodecIds == {IdAb, IdNested}

\* byte strings of every length up to MaxBytesLen, so that the encoding
\* ends with no pad, one pad and two pads
ByteValues == {0, 77, 255}

RECURSIVE BytesUpTo(_)
BytesUpTo(n) ==
    IF n = 0 THEN {<<>>}
    ELSE LET shorter == BytesUpTo(n - 1)
         IN  shorter \cup {Append(b, v) : b \in shorter, v \in ByteValues}

ByteInputs == BytesUpTo(MaxBytesLen)

\* base64.b64encode(b): three bytes to four characters, '=' padded
RECURSIVE b64encode(_)
b64encode(b) ==
    LET ch(v) == Base64Alphabet[v + 1]
    IN  IF Len(b) = 0 THEN <<>>
        ELSE IF Len(b) = 1
        THEN <<ch(b[1] \div 4), ch((b[1] % 4) * 16), "=", "=">>
        ELSE IF Len(b) = 2
        THEN <<ch(b[1] \div 4), ch((b[1] % 4) * 16 + b[2] \div 16),
               ch((b[2] % 16) * 4), "=">>
        ELSE <<ch(b[1] \div 4), ch((b[1] % 4) * 16 + b[2] \div 16),
               ch((b[2] % 16) * 4 + b[3] \div 64), ch(b[3] % 64)>>
             \o b64encode(SubSeq(b, 4, Len(b)))

EncodedInputs == {b64encode(b) : b \in ByteInputs}

---------------------------------------------------------------------------
(* State before any call.                                                  *)

\* every variable but the inputs, as they are before any call
Blank ==
    /\ extraction_start = None
    /\ url_valid = None
    /\ book_id = None
    /\ browser = "None"
    /\ opened = 0
    /\ closed = 0
    /\ steps = <<>>
    /\ frames = <<>>
    /\ iframe_data = None
    /\ pdf_data_b64 = None
    /\ pdf_path = None
    /\ pdfs = <<>>
    /\ metadata = <<>>
    /\ shots = <<>>
    /\ retval = None
    /\ result = None
    /\ escaped = None
    /\ io_log = <<>>
    /\ urls = <<>>
    /\ idx = 0
    /\ results = None
    /\ run_log = <<>>
    /\ command = ""
    /\ continue_on_error = FALSE
    /\ exit_status = None

\* datetime.now() is read from a clock that only moves forward
Tick ==
    /\ now < MaxClock
    /\ now' = now + 1
    /\ UNCHANGED <<url, pc, extraction_start, url_valid, book_id, browser,
                   opened, closed, steps, frames, iframe_data, content,
                   pdf_data_b64, pdf_path, pdfs, metadata, shots, retval,
                   result, escaped,
                   io_log, urls, idx, results, run_log,
                   command, continue_on_error, exit_status>>

---------------------------------------------------------------------------
(* The URL functions called on their own.                                  *)

InitUrl ==
    /\ url \in UrlInputs
    /\ now = 0
    /\ pc = "api"
    /\ content = <<>>
    /\ Blank

CallValidateUrl ==
    /\ pc = "api"
    /\ url_valid = None
    /\ url_valid' = Some(validate_url(url))
    /\ UNCHANGED <<url, now, pc, extraction_start, book_id, browser, opened,
                   closed, steps, frames, iframe_data, content, pdf_data_b64,
                   pdf_path, pdfs, metadata, shots, retval, result, escaped,
                   io_log, urls, idx, results, run_log,
                   command, continue_on_error, exit_status>>

CallExtractBookId ==
    /\ pc = "api"
    /\ book_id = None
    /\ book_id' = Some(extract_book_id(url, now))
    /\ UNCHANGED <<url, now, pc, extraction_start, url_valid, browser, opened,
                   closed, steps, frames, iframe_data, content, pdf_data_b64,
                   pdf_path, pdfs, metadata, shots, retval, result, escaped,
                   io_log, urls, idx, results, run_log,
                   command, continue_on_error, exit_status>>

NextUrl == CallValidateUrl \/ CallExtractBookId \/ Tick

SpecUrl == InitUrl /\ [][NextUrl]_vars

---------------------------------------------------------------------------
(* extract_pdf_data called on its own.                                     *)

InitMatch ==
    /\ content \in ContentInputs
    /\ url = <<>>
    /\ now = 0
    /\ pc = "api"
    /\ Blank

CallExtractPdfData ==
    /\ pc = "api"
    /\ pdf_data_b64' = extract_pdf_data(content)
    /\ pc' = "matched"
    /\ UNCHANGED <<url, now, extraction_start, url_valid, book_id, browser,
                   opened, closed, steps, frames, iframe_data, content,
                   pdf_path, pdfs, metadata, shots, retval, result, escaped,
                   io_log, urls, idx, results, run_log,
                   command, continue_on_error, exit_status>>

NextMatch == CallExtractPdfData

SpecMatch == InitMatch /\ [][NextMatch]_vars

---------------------------------------------------------------------------
(* decode_and_save_pdf called on its own.                                  *)

InitCodec ==
    /\ url = <<>>
    /\ now = 0
    /\ pc = "api"
    /\ content = <<>>
    /\ extraction_start = None
    /\ url_valid = None
    /\ book_id \in {Some(id) : id \in CodecIds}
    /\ browser = "None"
    /\ opened = 0
    /\ closed = 0
    /\ steps = <<>>
    /\ frames = <<>>
    /\ iframe_data = None
    /\ pdf_data_b64 \in {Some(p) : p \in CodecInputs \cup EncodedInputs}
    /\ pdf_path = None
    /\ pdfs = <<>>
    /\ metadata = <<>>
    /\ shots = <<>>
    /\ retval = None
    /\ result = None
    /\ escaped = None
    /\ io_log = <<>>
    /\ urls = <<>>
    /\ idx = 0
    /\ results = None
    /\ run_log = <<>>
    /\ command = ""
    /\ continue_on_error = FALSE
    /\ exit_status = None

CallDecodeAndSavePdf ==
    /\ pc = "api"
    /\ \E io \in WriteOutcomes :
          LET r == decode_and_save_pdf(pdf_data_b64[1], book_id[1], pdfs, io)
          IN  /\ pdf_path' = r.ret
              /\ pdfs' = r.files
              /\ io_log' = LogIo("pdfs", r.fs)
    /\ pc' = "saved"
    /\ UNCHANGED <<url, now, extraction_start, url_valid, book_id, browser,
                   opened, closed, steps, frames, iframe_data, content,
                   pdf_data_b64, metadata, shots, retval, result, escaped,
                   urls, idx, results, run_log,
                   command, continue_on_error, exit_status>>

NextCodec == CallDecodeAndSavePdf

SpecCodec == InitCodec /\ [][NextCodec]_vars

---------------------------------------------------------------------------
(* Pages and URLs of a run of extract_book.                                *)

Filler == [k \in 1..MinContentLength |-> "x"]

PayloadBadPadding == <<"Q", "U", "J">>

TextGood == FormVar(PayloadPdf) \o Filler
TextNoPdf == NoiseOtherVar \o Filler
TextBadPadding == FormVar(PayloadBadPadding) \o Filler
TextShort == FormVar(PayloadPdf)

SrcViewer == <<"v", "i", "e", "w", "e", "r">>

PageInputs ==
    { <<>>,
      <<Frame(SrcViewer, "ok", TextGood, "ok")>>,
      <<Frame(SrcViewer, "ok", TextShort, "ok"),
        Frame(SrcViewer, "ok", TextGood, "raise")>>,
      <<Frame(SrcViewer, "none", <<>>, "ok"),
        Frame(SrcViewer, "raise", <<>>, "ok")>>,
      <<Frame(SrcViewer, "ok", TextNoPdf, "ok")>>,
      <<Frame(SrcViewer, "ok", TextBadPadding, "ok")>> }

UrlBook == SchemeHttps \o LibraryDomain \o BookPath \o TailId
UrlBookNoId == SchemeHttps \o LibraryDomain \o BookPath \o TailOther
UrlGoogle == SchemeHttps \o HostGoogle
UrlWrongPath == SchemeHttps \o LibraryDomain \o PathOther

RunUrls == {UrlBook, UrlBookNoId, UrlGoogle, UrlWrongPath}

\* str(e) for the exceptions the browser and the file system raise; an
\* exception built without arguments prints as the empty string
LaunchFaults == {"", "Executable doesn't exist"}
PageFaults == {"Target closed"}
MetadataFaults == {"Permission denied"}
CloseFaults == {"Connection closed"}

MetadataSuffix == <<"_", "m", "e", "t", "a", "d", "a", "t", "a", ".", "j", "s", "o", "n">>

---------------------------------------------------------------------------
(* extract_book, one action per pipeline call.                             *)

Init ==
    /\ url \in RunUrls
    /\ now = 0
    /\ pc = "start"
    /\ content = <<>>
    /\ Blank

Log(fn, ok) == Append(steps, [fn |-> fn, ok |-> ok])

\* the dict built by the except clause
FailureResult(msg) ==
    [success |-> FALSE, error |-> msg, book_id |-> book_id[1], url |-> url,
     extraction_duration |-> now - extraction_start[1]]

\* raise inside the try block: the except clause builds the failure dict
\* and the finally clause is next
Raise(msg) ==
    /\ retval' = Some(FailureResult(msg))
    /\ pc' = "finally"

\* an invalid URL does not end the run
ValidateStepNoReturn ==
    /\ pc = "start"
    /\ extraction_start' = Some(now)
    /\ url_valid' = Some(validate_url(url))
    /\ steps' = Log("validate_url", validate_url(url))
    /\ pc' = "extract_book_id"
    /\ UNCHANGED <<retval, result>>
    /\ UNCHANGED <<url, now, book_id, browser, opened, closed, frames,
                   iframe_data, content, pdf_data_b64, pdf_path, pdfs,
                   metadata, shots, escaped,
                   io_log, urls, idx, results, run_log,
                   command, continue_on_error, exit_status>>

\* entry, then validate_url; an invalid URL returns before the try block
ValidateStep ==
    /\ pc = "start"
    /\ extraction_start' = Some(now)
    /\ url_valid' = Some(validate_url(url))
    /\ steps' = Log("validate_url", validate_url(url))
    /\ IF ~validate_url(url)
       THEN /\ retval' = Some([success |-> FALSE, error |-> "Invalid URL", url |-> url])
            /\ result' = retval'
            /\ pc' = "returned"
       ELSE /\ pc' = "extract_book_id"
            /\ UNCHANGED <<retval, result>>
    /\ UNCHANGED <<url, now, book_id, browser, opened, closed, frames,
                   iframe_data, content, pdf_data_b64, pdf_path, pdfs,
                   metadata, shots, escaped,
                   io_log, urls, idx, results, run_log,
                   command, continue_on_error, exit_status>>

DeriveIdStep ==
    /\ pc = "extract_book_id"
    /\ book_id' = Some(extract_book_id(url, now))
    /\ steps' = Log("extract_book_id", TRUE)
    /\ browser' = "None"
    /\ pc' = "setup_browser"
    /\ UNCHANGED <<url, now, extraction_start, url_valid, opened, closed,
                   frames, iframe_data, content, pdf_data_b64, pdf_path, pdfs,
                   metadata, shots, retval, result, escaped,
                   io_log, urls, idx, results, run_log,
                   command, continue_on_error, exit_status>>

SetupBrowserStep ==
    /\ pc = "setup_browser"
    /\ \/ /\ browser' = "open"
          /\ opened' = opened + 1
          /\ steps' = Log("setup_browser", TRUE)
          /\ pc' = "setup_page"
          /\ UNCHANGED retval
       \/ /\ \E msg \in LaunchFaults : Raise(msg)
          /\ steps' = Log("setup_browser", FALSE)
          /\ UNCHANGED <<browser, opened>>
    /\ UNCHANGED <<url, now, extraction_start, url_valid, book_id, closed,
                   frames, iframe_data, content, pdf_data_b64, pdf_path, pdfs,
                   metadata, shots, result, escaped,
                   io_log, urls, idx, results, run_log,
                   command, continue_on_error, exit_status>>

SetupPageStep ==
    /\ pc = "setup_page"
    /\ \/ /\ steps' = Log("setup_page", TRUE)
          /\ pc' = "navigate_to_book"
          /\ UNCHANGED retval
       \/ /\ \E msg \in PageFaults : Raise(msg)
          /\ steps' = Log("setup_page", FALSE)
    /\ UNCHANGED <<url, now, extraction_start, url_valid, book_id, browser,
                   opened, closed, frames, iframe_data, content, pdf_data_b64,
                   pdf_path, pdfs, metadata, shots, result, escaped,
                   io_log, urls, idx, results, run_log,
                   command, continue_on_error, exit_status>>

\* navigate_to_book returns False on a timeout and on any other fault of
\* page.goto; on success the page with its iframes is loaded
NavigateStep ==
    /\ pc = "navigate_to_book"
    /\ \E goto \in {"ok", "timeout", "error"} :
          IF goto = "ok"
          THEN /\ frames' \in PageInputs
               /\ steps' = Log("navigate_to_book", TRUE)
               /\ pc' = "extract_iframe_content"
               /\ UNCHANGED retval
          ELSE /\ Raise("Failed to navigate to book page")
               /\ steps' = Log("navigate_to_book", FALSE)
               /\ UNCHANGED frames
    /\ UNCHANGED <<url, now, extraction_start, url_valid, book_id, browser,
                   opened, closed, iframe_data, content, pdf_data_b64,
                   pdf_path, pdfs, metadata, shots, result, escaped,
                   io_log, urls, idx, results, run_log,
                   command, continue_on_error, exit_status>>

ExtractIframeStep ==
    /\ pc = "extract_iframe_content"
    /\ \E query \in {"ok", "raise"} :
          LET r == extract_iframe_content(frames, query)
          IN  /\ iframe_data' = r.ret
              /\ shots' = r.shots
              /\ steps' = Log("extract_iframe_content", r.ret # None)
              /\ IF r.ret = None
                 THEN /\ Raise("Failed to extract iframe content")
                      /\ UNCHANGED content
                 ELSE /\ content' = r.ret[1].content
                      /\ pc' = "extract_pdf_data"
                      /\ UNCHANGED retval
    /\ UNCHANGED <<url, now, extraction_start, url_valid, book_id, browser,
                   opened, closed, frames, pdf_data_b64, pdf_path, pdfs,
                   metadata, result, escaped,
                   io_log, urls, idx, results, run_log,
                   command, continue_on_error, exit_status>>

MatchStep ==
    /\ pc = "extract_pdf_data"
    /\ pdf_data_b64' = extract_pdf_data(content)
    /\ steps' = Log("extract_pdf_data", extract_pdf_data(content) # None)
    /\ IF extract_pdf_data(content) = None
       THEN Raise("Failed to extract PDF data")
       ELSE /\ pc' = "decode_and_save_pdf"
            /\ UNCHANGED retval
    /\ UNCHANGED <<url, now, extraction_start, url_valid, book_id, browser,
                   opened, closed, frames, iframe_data, content, pdf_path,
                   pdfs, metadata, shots, result, escaped,
                   io_log, urls, idx, results, run_log,
                   command, continue_on_error, exit_status>>

DecodeStep ==
    /\ pc = "decode_and_save_pdf"
    /\ \E io \in WriteOutcomes :
          LET r == decode_and_save_pdf(pdf_data_b64[1], book_id[1], pdfs, io)
          IN  /\ pdf_path' = r.ret
              /\ pdfs' = r.files
              /\ io_log' = LogIo("pdfs", r.fs)
              /\ steps' = Log("decode_and_save_pdf", r.ret # None)
              /\ IF r.ret = None
                 THEN Raise("Failed to decode/save PDF")
                 ELSE /\ pc' = "save_metadata"
                      /\ UNCHANGED retval
    /\ UNCHANGED <<url, now, extraction_start, url_valid, book_id, browser,
                   opened, closed, frames, iframe_data, content, pdf_data_b64,
                   metadata, shots, result, escaped,
                   urls, idx, results, run_log,
                   command, continue_on_error, exit_status>>

\* the extraction_data dict of the success path
ExtractionData ==
    [success |-> TRUE, book_id |-> book_id[1], url |-> url,
     pdf_path |-> pdf_path[1],
     pdf_size_bytes |-> Len(b64decode(pdf_data_b64[1]).data),
     iframe_data |-> [iframe_index |-> iframe_data[1].iframe_index,
                      iframe_src |-> iframe_data[1].iframe_src,
                      content_length |-> iframe_data[1].content_length],
     extraction_duration |-> now - extraction_start[1]]

\* the record save_metadata dumps to metadata/{book_id}_metadata.json
MetadataRecord ==
    [k \in {"original_url", "extraction_date", "extractor_version", "created_by"}
           \cup DOMAIN ExtractionData |->
        CASE k = "original_url" -> url
          [] k = "extraction_date" -> now
          [] k = "extractor_version" -> "1.0.0"
          [] k = "created_by" -> "Eylias Sharar"
          [] OTHER -> ExtractionData[k]]

\* save_metadata, then the return of extraction_data
SaveMetadataStep ==
    /\ pc = "save_metadata"
    /\ LET metadata_file == book_id[1] \o MetadataSuffix
       IN  \E io \in WriteOutcomes :
              CASE io = "ok" ->
                     /\ metadata' = (metadata_file :> Some(MetadataRecord)) @@ metadata
                     /\ steps' = Log("save_metadata", TRUE)
                     /\ retval' = Some([k \in DOMAIN ExtractionData \cup {"metadata_path"} |->
                                          IF k = "metadata_path" THEN metadata_file
                                          ELSE ExtractionData[k]])
                     /\ pc' = "finally"
                     /\ io_log' = LogIo("metadata", io)
                [] io = "open_fails" ->
                     /\ \E msg \in MetadataFaults : Raise(msg)
                     /\ steps' = Log("save_metadata", FALSE)
                     /\ UNCHANGED metadata
                     /\ io_log' = LogIo("metadata", io)
                [] io = "write_fails" ->
                     /\ \E msg \in MetadataFaults : Raise(msg)
                     /\ steps' = Log("save_metadata", FALSE)
                     /\ metadata' = (metadata_file :> None) @@ metadata
                     /\ io_log' = LogIo("metadata", io)
    /\ UNCHANGED <<url, now, extraction_start, url_valid, book_id, browser,
                   opened, closed, frames, iframe_data, content, pdf_data_b64,
                   pdf_path, pdfs, shots, result, escaped,
                   urls, idx, results, run_log,
                   command, continue_on_error, exit_status>>

\* the browser is closed on the success path only
FinallyStepLeak ==
    /\ pc = "finally"
    /\ IF browser = "open" /\ retval[1].success
       THEN /\ closed' = closed + 1
            /\ browser' = "closed"
            /\ \/ /\ result' = retval
                  /\ pc' = "returned"
                  /\ UNCHANGED escaped
               \/ /\ \E msg \in CloseFaults : escaped' = Some(msg)
                  /\ pc' = "raised"
                  /\ UNCHANGED result
       ELSE /\ result' = retval
            /\ pc' = "returned"
            /\ UNCHANGED <<closed, browser, escaped>>
    /\ UNCHANGED <<url, now, extraction_start, url_valid, book_id, opened,
                   steps, frames, iframe_data, content, pdf_data_b64,
                   pdf_path, pdfs, metadata, shots, retval,
                   io_log, urls, idx, results, run_log,
                   command, continue_on_error, exit_status>>

\* the finally clause: browser.close() when a browser was launched, then
\* the pending return; an exception of close() replaces the return
FinallyStep ==
    /\ pc = "finally"
    /\ IF browser = "open"
       THEN /\ closed' = closed + 1
            /\ browser' = "closed"
            /\ \/ /\ result' = retval
                  /\ pc' = "returned"
                  /\ UNCHANGED escaped
               \/ /\ \E msg \in CloseFaults : escaped' = Some(msg)
                  /\ pc' = "raised"
                  /\ UNCHANGED result
       ELSE /\ result' = retval
            /\ pc' = "returned"
            /\ UNCHANGED <<closed, browser, escaped>>
    /\ UNCHANGED <<url, now, extraction_start, url_valid, book_id, opened,
                   steps, frames, iframe_data, content, pdf_data_b64,
                   pdf_path, pdfs, metadata, shots, retval,
                   io_log, urls, idx, results, run_log,
                   command, continue_on_error, exit_status>>

Next ==
    \/ ValidateStep
    \/ DeriveIdStep
    \/ SetupBrowserStep
    \/ SetupPageStep
    \/ NavigateStep
    \/ ExtractIframeStep
    \/ MatchStep
    \/ DecodeStep
    \/ SaveMetadataStep
    \/ FinallyStep
    \/ Tick

Spec == Init /\ [][Next]_vars


---------------------------------------------------------------------------
(* extract_multiple_books: one extractor, the URLs one after the other.   *)

UrlBookCd == SchemeHttps \o LibraryDomain \o BookPath \o <<"?", "e", "=", "c", "d">>

BatchInputs ==
    { <<>>,
      <<UrlWrongPath>>,
      <<UrlBook, UrlBook>>,
      <<UrlBookNoId, UrlBookNoId>>,
      <<UrlBook, UrlGoogle, UrlBookCd>> }

\* the locals of a call of extract_book, gone when the call is left
CallLocalsGone ==
    /\ extraction_start' = None
    /\ url_valid' = None
    /\ book_id' = None
    /\ browser' = "None"
    /\ steps' = <<>>
    /\ frames' = <<>>
    /\ iframe_data' = None
    /\ content' = <<>>
    /\ pdf_data_b64' = None
    /\ pdf_path' = None
    /\ shots' = <<>>
    /\ retval' = None
    /\ result' = None
    /\ io_log' = <<>>

InitBatch ==
    /\ urls \in BatchInputs
    /\ url = <<>>
    /\ now = 0
    /\ pc = "batch_start"
    /\ content = <<>>
    /\ extraction_start = None
    /\ url_valid = None
    /\ book_id = None
    /\ browser = "None"
    /\ opened = 0
    /\ closed = 0
    /\ steps = <<>>
    /\ frames = <<>>
    /\ iframe_data = None
    /\ pdf_data_b64 = None
    /\ pdf_path = None
    /\ pdfs = <<>>
    /\ metadata = <<>>
    /\ shots = <<>>
    /\ retval = None
    /\ result = None
    /\ escaped = None
    /\ io_log = <<>>
    /\ idx = 0
    /\ results = None
    /\ run_log = <<>>
    /\ command = ""
    /\ continue_on_error = FALSE
    /\ exit_status = None

\* the results dict before the loop
BatchStart ==
    /\ pc = "batch_start"
    /\ results' = Some([total_books |-> Len(urls),
                        successful_extractions |-> <<>>,
                        failed_extractions |-> <<>>,
                        start_time |-> now])
    /\ idx' = 0
    /\ pc' = "batch_loop"
    /\ UNCHANGED <<url, now, extraction_start, url_valid, book_id, browser,
                   opened, closed, steps, frames, iframe_data, content,
                   pdf_data_b64, pdf_path, pdfs, metadata, shots, retval,
                   result, escaped, io_log, urls, run_log,
                   command, continue_on_error, exit_status>>

\* the loop takes the next URL and calls extractor.extract_book(url)
BatchNext ==
    /\ pc = "batch_loop"
    /\ idx < Len(urls)
    /\ url' = urls[idx + 1]
    /\ pc' = "start"
    /\ UNCHANGED <<now, extraction_start, url_valid, book_id, browser,
                   opened, closed, steps, frames, iframe_data, content,
                   pdf_data_b64, pdf_path, pdfs, metadata, shots, retval,
                   result, escaped, io_log, urls, idx, results, run_log,
                   command, continue_on_error, exit_status>>

\* what a finished call leaves behind, kept for the properties of a batch
RunRecord ==
    [url |-> url, result |-> result[1], payload |-> pdf_data_b64,
     written |-> IF pdf_path = None THEN None ELSE Some(pdfs[pdf_path[1]]),
     files |-> DOMAIN pdfs,
     session |-> IF browser = "None" THEN 0 ELSE opened,
     faults |-> {e.fs : e \in {io_log[k] : k \in 1..Len(io_log)}} \ {"ok"}]

\* a result goes to the head of its list
BatchCollectPrepend ==
    /\ pc = "returned"
    /\ results # None
    /\ results' = Some(IF result[1].success
                       THEN [results[1] EXCEPT !.successful_extractions = <<result[1]>> \o @]
                       ELSE [results[1] EXCEPT !.failed_extractions = <<result[1]>> \o @])
    /\ run_log' = Append(run_log, RunRecord)
    /\ idx' = idx + 1
    /\ pc' = "batch_loop"
    /\ CallLocalsGone
    /\ UNCHANGED <<url, now, opened, closed, pdfs, metadata, escaped, urls,
                   command, continue_on_error, exit_status>>

\* extract_book returned: the result is appended to one of the two lists
BatchCollect ==
    /\ pc = "returned"
    /\ results # None
    /\ results' = Some(IF result[1].success
                       THEN [results[1] EXCEPT !.successful_extractions = Append(@, result[1])]
                       ELSE [results[1] EXCEPT !.failed_extractions = Append(@, result[1])])
    /\ run_log' = Append(run_log, RunRecord)
    /\ idx' = idx + 1
    /\ pc' = "batch_loop"
    /\ CallLocalsGone
    /\ UNCHANGED <<url, now, opened, closed, pdfs, metadata, escaped, urls,
                   command, continue_on_error, exit_status>>

\* an exception that left extract_book leaves extract_multiple_books too:
\* the loop has no handler
BatchAbort ==
    /\ pc = "raised"
    /\ results # None
    /\ pc' = "batch_raised"
    /\ CallLocalsGone
    /\ UNCHANGED <<url, now, opened, closed, pdfs, metadata, escaped, urls,
                   idx, results, run_log,
                   command, continue_on_error, exit_status>>

\* the share of the successful as a fraction of one
SuccessRateFraction(n, total) == [num |-> n, den |-> total]

\* n / total * 100 as the exact quotient num / den
SuccessRate(n, total) == [num |-> n * 100, den |-> total]

\* the tenths printed by the format :.1f
Format1f(r) == (r.num * 20 + r.den) \div (2 * r.den)

\* after the loop: end_time and success_rate, a division by len(urls)
BatchFinish ==
    /\ pc = "batch_loop"
    /\ idx = Len(urls)
    /\ IF Len(urls) = 0
       THEN /\ escaped' = Some("division by zero")
            /\ pc' = "batch_raised"
            /\ UNCHANGED results
       ELSE /\ results' = Some([k \in DOMAIN results[1] \cup {"end_time", "success_rate"} |->
                                 CASE k = "end_time" -> now
                                   [] k = "success_rate" ->
                                        SuccessRate(Len(results[1].successful_extractions),
                                                    Len(urls))
                                   [] OTHER -> results[1][k]])
            /\ pc' = "batch_returned"
            /\ UNCHANGED escaped
    /\ UNCHANGED <<url, now, extraction_start, url_valid, book_id, browser,
                   opened, closed, steps, frames, iframe_data, content,
                   pdf_data_b64, pdf_path, pdfs, metadata, shots, retval,
                   result, io_log, urls, idx, run_log,
                   command, continue_on_error, exit_status>>

NextBatch ==
    \/ BatchStart
    \/ BatchNext
    \/ BatchCollect
    \/ BatchAbort
    \/ BatchFinish
    \/ Next

SpecBatch == InitBatch /\ [][NextBatch]_vars

BatchOver == pc \in {"batch_returned", "batch_raised"}

---------------------------------------------------------------------------
(* extract_book from the frame scan on, over pages of up to MaxFrames      *)
(* iframes whose texts lie around the threshold.                           *)

\* the pipeline calls in their fixed order; OpenSession is setup_browser
\* followed by setup_page
CallOrder == <<"validate_url", "extract_book_id", "setup_browser",
               "setup_page", "navigate_to_book", "extract_iframe_content",
               "extract_pdf_data", "decode_and_save_pdf", "save_metadata">>

PadTo(s, n) == s \o [k \in 1..(n - Len(s)) |-> "x"]

TextAtThreshold == PadTo(FormVar(PayloadPdf), MinContentLength)
TextBelowThreshold == PadTo(FormVar(PayloadPdf), MinContentLength - 1)
TextTrailingNewline == TextBelowThreshold \o <<"\n">>
TextLeadingNewline == <<"\n">> \o TextAtThreshold

ScanTexts == {<<>>, TextBelowThreshold, TextAtThreshold, TextTrailingNewline,
              TextLeadingNewline}

FrameKinds ==
    {Frame(SrcViewer, "none", <<>>, "ok"), Frame(SrcViewer, "raise", <<>>, "ok")}
    \cup {Frame(SrcViewer, "ok", t, shot) : t \in ScanTexts, shot \in {"ok", "raise"}}

RECURSIVE PagesUpTo(_)
PagesUpTo(n) ==
    IF n = 0 THEN {<<>>}
    ELSE LET shorter == PagesUpTo(n - 1)
         IN  shorter \cup {Append(pg, f) : pg \in shorter, f \in FrameKinds}

FrameInputs == PagesUpTo(MaxFrames)

\* the state of a run of extract_book when navigate_to_book has returned
\* True, on a page of FrameInputs
InitFrames ==
    /\ url = UrlBook
    /\ now = 0
    /\ pc = "extract_iframe_content"
    /\ content = <<>>
    /\ extraction_start = Some(0)
    /\ url_valid = Some(TRUE)
    /\ book_id = Some(extract_book_id(UrlBook, 0))
    /\ browser = "open"
    /\ opened = 1
    /\ closed = 0
    /\ steps = [k \in 1..5 |-> [fn |-> CallOrder[k], ok |-> TRUE]]
    /\ frames \in FrameInputs
    /\ iframe_data = None
    /\ pdf_data_b64 = None
    /\ pdf_path = None
    /\ pdfs = <<>>
    /\ metadata = <<>>
    /\ shots = <<>>
    /\ retval = None
    /\ result = None
    /\ escaped = None
    /\ io_log = <<>>
    /\ urls = <<>>
    /\ idx = 0
    /\ results = None
    /\ run_log = <<>>
    /\ command = ""
    /\ continue_on_error = FALSE
    /\ exit_status = None

NextFrames ==
    \/ ExtractIframeStep
    \/ MatchStep
    \/ DecodeStep
    \/ SaveMetadataStep
    \/ FinallyStep

SpecFrames == InitFrames /\ [][NextFrames]_vars

---------------------------------------------------------------------------
(* extract_book under the caller's interrupt: asyncio.run cancels the      *)
(* task, CancelledError is raised at the await the task is suspended in,   *)
(* passes the except Exception clause and runs the finally clause; main    *)
(* then exits.                                                             *)

\* the steps of extract_book that await the browser, once it is assigned
SuspensionPoints == {"setup_page", "navigate_to_book", "extract_iframe_content"}

\* the interrupt arrives while the task awaits in one of these steps
Interrupt ==
    /\ pc \in SuspensionPoints
    /\ IF browser = "open"
       THEN /\ closed' = closed + 1
            /\ browser' = "closed"
       ELSE UNCHANGED <<closed, browser>>
    /\ escaped' = Some("CancelledError")
    /\ pc' = "interrupted"
    /\ UNCHANGED <<url, now, extraction_start, url_valid, book_id, opened,
                   steps, frames, iframe_data, content, pdf_data_b64,
                   pdf_path, pdfs, metadata, shots, retval, result,
                   io_log, urls, idx, results, run_log,
                   command, continue_on_error, exit_status>>

\* the interrupt arrives while the task awaits chromium.launch() inside
\* setup_browser: the browser process has been started or not, and in both
\* cases browser is still None in extract_book, so the finally clause
\* closes nothing
InterruptLaunch ==
    /\ pc = "setup_browser"
    /\ \E started \in BOOLEAN : opened' = IF started THEN opened + 1 ELSE opened
    /\ escaped' = Some("CancelledError")
    /\ pc' = "interrupted"
    /\ UNCHANGED <<url, now, extraction_start, url_valid, book_id, browser,
                   closed, steps, frames, iframe_data, content, pdf_data_b64,
                   pdf_path, pdfs, metadata, shots, retval, result,
                   io_log, urls, idx, results, run_log,
                   command, continue_on_error, exit_status>>

NextInterrupt ==
    \/ Interrupt
    \/ InterruptLaunch
    \/ Next

SpecInterrupt == Init /\ [][NextInterrupt]_vars

---------------------------------------------------------------------------
(* main.py: the commands extract and batch-extract and the status the      *)
(* process exits with.                                                     *)

\* the URLs read from the file of batch-extract, blank and comment lines
\* dropped
UrlFiles == {<<>>, <<UrlGoogle>>, <<UrlBook>>, <<UrlBook, UrlGoogle>>}

Invocations ==
    {[command |-> "extract", url |-> u, urls |-> <<>>, continue_on_error |-> FALSE] :
        u \in RunUrls}
    \cup {[command |-> "batch-extract", url |-> <<>>, urls |-> f, continue_on_error |-> c] :
            f \in UrlFiles, c \in BOOLEAN}

InitMain ==
    /\ \E inv \in Invocations :
          /\ command = inv.command
          /\ url = inv.url
          /\ urls = inv.urls
          /\ continue_on_error = inv.continue_on_error
    /\ now = 0
    /\ pc = "main"
    /\ content = <<>>
    /\ extraction_start = None
    /\ url_valid = None
    /\ book_id = None
    /\ browser = "None"
    /\ opened = 0
    /\ closed = 0
    /\ steps = <<>>
    /\ frames = <<>>
    /\ iframe_data = None
    /\ pdf_data_b64 = None
    /\ pdf_path = None
    /\ pdfs = <<>>
    /\ metadata = <<>>
    /\ shots = <<>>
    /\ retval = None
    /\ result = None
    /\ escaped = None
    /\ io_log = <<>>
    /\ idx = 0
    /\ results = None
    /\ run_log = <<>>
    /\ exit_status = None

\* extract: asyncio.run(extract_single_book(url, ...))
MainExtractCall ==
    /\ pc = "main"
    /\ command = "extract"
    /\ pc' = "start"
    /\ UNCHANGED <<url, now, extraction_start, url_valid, book_id, browser,
                   opened, closed, steps, frames, iframe_data, content,
                   pdf_data_b64, pdf_path, pdfs, metadata, shots, retval,
                   result, escaped, io_log, urls, idx, results, run_log,
                   command, continue_on_error, exit_status>>

\* extract after the call: the end of the function on success, sys.exit(1)
\* on a failed result and in the except Exception clause
MainExtractExit ==
    /\ command = "extract"
    /\ pc \in {"returned", "raised"}
    /\ exit_status' = Some(IF pc = "returned" /\ result[1].success THEN 0 ELSE 1)
    /\ pc' = "exited"
    /\ UNCHANGED <<url, now, extraction_start, url_valid, book_id, browser,
                   opened, closed, steps, frames, iframe_data, content,
                   pdf_data_b64, pdf_path, pdfs, metadata, shots, retval,
                   result, escaped, io_log, urls, idx, results, run_log,
                   command, continue_on_error>>

\* batch-extract: sys.exit(1) when the file holds no URL, otherwise
\* asyncio.run(extract_multiple_books(urls, ...))
MainBatchCall ==
    /\ pc = "main"
    /\ command = "batch-extract"
    /\ IF urls = <<>>
       THEN /\ exit_status' = Some(1)
            /\ pc' = "exited"
       ELSE /\ pc' = "batch_start"
            /\ UNCHANGED exit_status
    /\ UNCHANGED <<url, now, extraction_start, url_valid, book_id, browser,
                   opened, closed, steps, frames, iframe_data, content,
                   pdf_data_b64, pdf_path, pdfs, metadata, shots, retval,
                   result, escaped, io_log, urls, idx, results, run_log,
                   command, continue_on_error>>

\* batch-extract after the call: the summary is printed, failed items only
\* draw a warning, batch_results.json is written and the function ends;
\* sys.exit(1) in the except Exception clause
MainBatchExit ==
    /\ command = "batch-extract"
    /\ pc \in {"batch_returned", "batch_raised"}
    /\ \E io \in WriteOutcomes :
          /\ io_log' = IF pc = "batch_returned" THEN LogIo("output", io) ELSE io_log
          /\ exit_status' = Some(IF pc = "batch_returned" /\ io = "ok" THEN 0 ELSE 1)
    /\ pc' = "exited"
    /\ UNCHANGED <<url, now, extraction_start, url_valid, book_id, browser,
                   opened, closed, steps, frames, iframe_data, content,
                   pdf_data_b64, pdf_path, pdfs, metadata, shots, retval,
                   result, escaped, urls, idx, results, run_log,
                   command, continue_on_error>>

NextMain ==
    \/ MainExtractCall
    \/ MainExtractExit
    \/ MainBatchCall
    \/ MainBatchExit
    \/ NextBatch

SpecMain == InitMain /\ [][NextMain]_vars

---------------------------------------------------------------------------
(* Properties of extract_book.                                             *)

Finished == pc \in {"returned", "raised"}

\* C1: every browser session that was opened has had close() invoked on it
\* exactly once by the time extract_book is left, on every path, and close()
\* is never invoked more often than sessions were opened.
C1_CloseExactlyOnce ==
    /\ closed <= opened
    /\ Finished => closed = opened
    /\ result # None => closed = opened

\* a navigation timeout: the failure result is returned, the one session
\* that was opened has been closed once
C1_Witness ==
    /\ pc = "returned"
    /\ opened = 1
    /\ closed = 1
    /\ ~result[1].success
    /\ result[1].error = "Failed to navigate to book page"

\* C2: whatever step fails, extract_book ends by returning a dict with a
\* success flag; no exception leaves it.
C2_NoFaultEscapes ==
    Finished => /\ escaped = None
                /\ result # None
                /\ "success" \in DOMAIN result[1]

FailedAt(fn) == steps # <<>> /\ steps[Len(steps)].fn = fn /\ ~steps[Len(steps)].ok

\* C3: the calls are made in the fixed order, a failed call is the last
\* call of the run and sends the run to its failure result; no session is
\* opened after a validation failure, nothing is decoded or written after a
\* match failure, no metadata is written after a decode/save failure.
C3_FixedOrderShortCircuit ==
    /\ Len(steps) <= Len(CallOrder)
    /\ \A k \in 1..Len(steps) :
          /\ steps[k].fn = CallOrder[k]
          /\ k < Len(steps) => steps[k].ok
    /\ (steps # <<>> /\ ~steps[Len(steps)].ok) =>
          (retval # None /\ ~retval[1].success /\ pc \in {"finally", "returned", "raised"})
    /\ FailedAt("validate_url") => (opened = 0 /\ browser = "None")
    /\ FailedAt("extract_pdf_data") => (pdf_path = None /\ pdfs = <<>> /\ metadata = <<>>)
    /\ FailedAt("decode_and_save_pdf") => metadata = <<>>

\* a run that failed at the payload match and has returned
C3_Witness ==
    /\ pc = "returned"
    /\ FailedAt("extract_pdf_data")
    /\ Len(steps) = 7
    /\ ~result[1].success

\* C4: a returned result has exactly one of pdf_path and error: success
\* comes with a pdf_path and no error, failure with a non-empty error
\* message and no pdf_path.
C4_ExactlyOneOfPathAndError ==
    result # None =>
        LET r == result[1]
        IN  IF r.success
            THEN /\ "pdf_path" \in DOMAIN r
                 /\ r.pdf_path # <<>>
                 /\ "error" \notin DOMAIN r
            ELSE /\ "error" \in DOMAIN r
                 /\ r.error # ""
                 /\ "pdf_path" \notin DOMAIN r

\* C5: every returned result carries the duration of the call, whatever
\* the outcome.
C5_DurationAlways ==
    result # None => "extraction_duration" \in DOMAIN result[1]

---------------------------------------------------------------------------
(* Properties of the URL functions.                                        *)

\* the host of an authority: what follows the last '@', up to the port
RECURSIVE AfterLast(_, _)
AfterLast(s, c) ==
    IF Find(s, c, 1) = 0 THEN s ELSE AfterLast(Tail_(s, Find(s, c, 1) + 1), c)

HostOf(u) ==
    LET hostport == AfterLast(urlparse(u).netloc, "@")
    IN  SubSeq(hostport, 1, RunEnd(hostport, 1, {":"}) - 1)

\* the pieces of s between separators c
RECURSIVE Split(_, _)
Split(s, c) ==
    IF Find(s, c, 1) = 0 THEN <<s>>
    ELSE <<SubSeq(s, 1, Find(s, c, 1) - 1)>> \o Split(Tail_(s, Find(s, c, 1) + 1), c)

\* the values of the query parameter e, in order of appearance
EValues(u) ==
    LET params == Split(urlparse(u).query, "&")
    IN  SelectSeq(params, LAMBDA p : MatchLit(p, 1, <<"e", "=">>))

\* the URL carries the parameter e with a value
HasIdParam(u) == EValues(u) # <<>> /\ Len(EValues(u)[1]) > 2

IdParam(u) == Tail_(EValues(u)[1], 3)

\* C6: validate_url returns True exactly when the host of the URL is
\* library.alkafeel.net and the path contains /dic/book/; a host that only
\* contains the domain as a substring is rejected.
C6_ValidExactlyLibraryHost ==
    url_valid # None =>
        (url_valid[1] <=> (/\ HostOf(url) = LibraryDomain
                           /\ Contains(urlparse(url).path, BookPath)))

\* C7: for a URL that carries the query parameter e, extract_book_id
\* returns exactly the value of that parameter (the text after e= up to the
\* next parameter or the end of the query), wherever the parameter stands
\* and whenever the call is made.
C7_IdIsParamValue ==
    (pc = "api" /\ book_id # None /\ HasIdParam(url)) => book_id[1] = IdParam(url)

---------------------------------------------------------------------------
(* Properties of extract_pdf_data.                                         *)

Matching(c) == {k \in 1..4 : PatternHits(k, c) # {}}

\* C8: the result is the group of the first pattern, in the order 1..4,
\* that matches anywhere in the text, also when a later pattern matches at
\* an earlier place of the text.
C8_FirstPatternInOrderWins ==
    pc = "matched" =>
        /\ Matching(content) = {} => pdf_data_b64 = None
        /\ Matching(content) # {} =>
              pdf_data_b64 = Search(Min(Matching(content)), content)

\* two patterns match with different groups, the later pattern of the list
\* earlier in the text, and the earlier pattern of the list has won
C8_Witness ==
    /\ pc = "matched"
    /\ \E i \in Matching(content), j \in Matching(content) :
          /\ i < j
          /\ Min(PatternHits(j, content)) < Min(PatternHits(i, content))
          /\ Search(i, content) # Search(j, content)
          /\ pdf_data_b64 = Search(i, content)

\* C9: a text holding one of the four forms alone, between texts without a
\* form, yields the payload of the form; a text in which no form occurs,
\* the empty text included, yields None.
C9_EachFormAlone ==
    pc = "matched" =>
        /\ \A k \in 1..4 : \A p \in FormPayloads(k) : \A a \in Noise, b \in Noise :
              content = a \o Form(k, p) \o b => pdf_data_b64 = Some(p)
        /\ Matching(content) = {} => pdf_data_b64 = None
        /\ content = <<>> => pdf_data_b64 = None

\* the data-URI form alone, inside other text, has yielded its payload
C9_Witness ==
    /\ pc = "matched"
    /\ content = NoiseHtml \o FormDataUri(PayloadOther) \o NoiseOtherVar
    /\ pdf_data_b64 = Some(PayloadOther)

---------------------------------------------------------------------------
(* Properties of decode_and_save_pdf.                                      *)

\* standard base64 (RFC 4648): groups of four alphabet characters, the
\* last group padded with at most two '=' at its end
ValidBase64(s) ==
    /\ Len(s) % 4 = 0
    /\ \A i \in 1..Len(s) :
          \/ s[i] \in Base64Chars
          \/ /\ s[i] = "="
             /\ i > Len(s) - 2
             /\ \A j \in i..Len(s) : s[j] = "="

\* C10: for a payload that is not valid standard base64, be it for a
\* character outside the alphabet or for wrong padding, decode_and_save_pdf
\* returns None and writes no PDF file.
C10_InvalidBase64Fails ==
    (pc = "saved" /\ ~ValidBase64(pdf_data_b64[1])) =>
        (pdf_path = None /\ pdfs = <<>>)
---------------------------------------------------------------------------
(* Round trip through the codec.                                           *)

\* the file system raised nothing of its own accord in the last write
NoDiskFault == io_log = <<>> \/ io_log[Len(io_log)].fs \notin {"open_fails", "write_fails"}

\* C11: for every byte string b and item id, decode_and_save_pdf on the
\* standard base64 encoding of b succeeds and leaves pdfs/{item_id}.pdf
\* holding exactly b (the disk itself not failing)
C11_RoundTrip ==
    \A b \in ByteInputs :
        (pc = "saved" /\ pdf_data_b64 = Some(b64encode(b)) /\ NoDiskFault) =>
            /\ pdf_path = Some(book_id[1] \o PdfSuffix)
            /\ book_id[1] \o PdfSuffix \in DOMAIN pdfs
            /\ pdfs[book_id[1] \o PdfSuffix] = b
---------------------------------------------------------------------------
(* Properties of a batch.                                                  *)

Succeeded(r) == r.result.success

\* two finished runs of a batch on the same URL that both stored a payload,
\* the same one
SamePayloadRuns ==
    {<<i, j>> \in (1..Len(run_log)) \X (1..Len(run_log)) :
        /\ i < j
        /\ run_log[i].url = run_log[j].url
        /\ Succeeded(run_log[i]) /\ Succeeded(run_log[j])
        /\ run_log[i].payload = run_log[j].payload}

\* the second run wrote the path of the first, the same bytes, and left no
\* file that was not there after the first
Overwrote(i, j) ==
    /\ run_log[i].result.pdf_path = run_log[j].result.pdf_path
    /\ run_log[i].written = run_log[j].written
    /\ run_log[j].files = run_log[i].files

\* C12 as stated: two runs of extract_book on the same URL with an unchanged
\* payload yield the same path, one file, the same bytes
C12_Idempotent ==
    \A p \in SamePayloadRuns : Overwrote(p[1], p[2])

\* C12 amended: the same, for a URL that carries the parameter e
C12_IdempotentWithId ==
    \A p \in SamePayloadRuns :
        HasIdParam(run_log[p[1]].url) => Overwrote(p[1], p[2])

C12_Witness ==
    \E p \in SamePayloadRuns :
        /\ HasIdParam(run_log[p[1]].url)
        /\ run_log[p[2]].written = Some(b64decode(PayloadPdf).data)

\* C13: a failure on one URL never halts the batch: when
\* extract_multiple_books is left every URL has one result, in the
\* successful list or in the failed one, and the two lengths add up to
\* total_books, the number of URLs
C13_NoItemHaltsBatch ==
    BatchOver =>
        /\ Len(run_log) = Len(urls)
        /\ results[1].total_books = Len(urls)
        /\ Len(results[1].successful_extractions)
             + Len(results[1].failed_extractions) = Len(urls)

\* the results of the runs so far that did, or did not, succeed, in the
\* order of the runs
RECURSIVE ResultsOf(_, _)
ResultsOf(log, flag) ==
    IF log = <<>> THEN <<>>
    ELSE IF Succeeded(Head(log)) = flag
    THEN <<Head(log).result>> \o ResultsOf(Tail(log), flag)
    ELSE ResultsOf(Tail(log), flag)

\* C14: the URLs are processed in input order and one at a time: a run
\* starts only when no session is open, at most one session is open at any
\* moment, no session serves two items, and each of the two lists holds its
\* results in input order
C14_OneAtATime ==
    /\ opened - closed \in {0, 1}
    /\ pc \in {"batch_start", "batch_loop", "start", "batch_returned"} => opened = closed
    /\ Len(run_log) = idx
    /\ \A i \in 1..Len(run_log) : run_log[i].url = urls[i]
    /\ \A i, j \in 1..Len(run_log) :
          (i < j /\ run_log[i].session # 0) => run_log[i].session < run_log[j].session
                                                \/ run_log[j].session = 0
    /\ results # None =>
          /\ results[1].successful_extractions = ResultsOf(run_log, TRUE)
          /\ results[1].failed_extractions = ResultsOf(run_log, FALSE)

C14_Witness ==
    /\ pc = "batch_returned"
    /\ Len(urls) = 3
    /\ opened = 2 /\ closed = 2
    /\ Len(results[1].successful_extractions) = 2

\* a batch of three URLs of which only the second fails validation
SecondOfThreeInvalid ==
    /\ pc = "batch_returned"
    /\ Len(urls) = 3
    /\ Succeeded(run_log[1])
    /\ ~Succeeded(run_log[2]) /\ run_log[2].result.error = "Invalid URL"
    /\ Succeeded(run_log[3])

\* success_rate is the successful count over the total, as a percentage
RateIsQuotient ==
    pc = "batch_returned" =>
        results[1].success_rate.num * results[1].total_books
          = Len(results[1].successful_extractions) * 100 * results[1].success_rate.den

SummaryOfThree ==
    /\ results[1].total_books = 3
    /\ Len(results[1].successful_extractions) = 2
    /\ Len(results[1].failed_extractions) = 1
    /\ results[1].successful_extractions[1].url = urls[1]
    /\ results[1].successful_extractions[2].url = urls[3]

\* C15 as stated: success_rate is the quotient and, for three URLs of which
\* only the second fails validation, the summary holds total 3, two
\* successful, one failed and success_rate 66.7
C15_SuccessRate ==
    /\ RateIsQuotient
    /\ SecondOfThreeInvalid =>
          /\ SummaryOfThree
          /\ results[1].success_rate.num * 10 = 667 * results[1].success_rate.den

\* C15 amended: the success_rate of that summary is the quotient 200/3,
\* which the printed summary shows as 66.7
C15_SuccessRateUnrounded ==
    /\ RateIsQuotient
    /\ SecondOfThreeInvalid =>
          /\ SummaryOfThree
          /\ results[1].success_rate.num * 3 = 200 * results[1].success_rate.den
          /\ Format1f(results[1].success_rate) = 667

C15_Witness == SecondOfThreeInvalid /\ results[1].success_rate.den = 3
---------------------------------------------------------------------------
(* Properties of the frame scan.                                           *)

\* extract_iframe_content has been called in this run
Scanned == \E k \in 1..Len(steps) : steps[k].fn = "extract_iframe_content"

\* the length the code compares with the threshold
ComparedLength(f) == Len(Strip(f.text))

\* the frame resolves and its text reaches the threshold
Qualifies(f) == f.frame = "ok" /\ f.text # <<>> /\ ComparedLength(f) >= MinContentLength

Qualifying == {k \in 1..Len(frames) : Qualifies(frames[k])}

\* C16: the scan returns the first frame, in document order, that resolves
\* and whose text reaches the threshold, and reports as content length the
\* length it compared with the threshold; every earlier frame did not
\* qualify; it fails when no frame qualifies, an empty page included
C16_FirstQualifyingFrame ==
    Scanned =>
        /\ Qualifying = {} => iframe_data = None
        /\ iframe_data # None =>
              /\ Qualifying # {}
              /\ iframe_data[1].iframe_index = Min(Qualifying)
              /\ iframe_data[1].content = frames[Min(Qualifying)].text
              /\ iframe_data[1].content_length = ComparedLength(frames[Min(Qualifying)])

\* the screenshot captures of the scan for frame n
ShotsOf(n) == {k \in 1..Len(shots) : shots[k].n = n}

\* C17: one screenshot capture is attempted for every frame the scan
\* visits, accepted or skipped, and at most one per frame
C17_ShotPerVisitedFrame ==
    (Scanned /\ iframe_data # None) =>
        \A n \in 1..iframe_data[1].iframe_index : Cardinality(ShotsOf(n)) = 1

\* the page with every screenshot capture succeeding
ShotsSucceed(fr) == [k \in 1..Len(fr) |-> [fr[k] EXCEPT !.shot = "ok"]]

ShotFailed == \E k \in 1..Len(shots) : ~shots[k].saved

\* C18: a screenshot capture that raises changes neither what the scan
\* returns nor the success flag of extract_book: the scan returns what it
\* returns on the same page with every capture succeeding, and the run does
\* not fail at the scan
C18_ShotFailureHarmless ==
    ShotFailed =>
        /\ iframe_data = extract_iframe_content(ShotsSucceed(frames), "ok").ret
        /\ iframe_data # None
        /\ ~FailedAt("extract_iframe_content")
        /\ (pc = "returned" /\ ~result[1].success) =>
               result[1].error # "Failed to extract iframe content"

C18_Witness ==
    /\ ShotFailed
    /\ pc = "returned"
    /\ result[1].success
    /\ iframe_data[1].iframe_index = 2
---------------------------------------------------------------------------
(* Metadata files.                                                         *)

\* C19: a run of extract_book that returns success=False has created no
\* metadata file, complete or partial, and a run that returns success=True
\* has written the metadata file of its item
C19_MetadataOnlyOnSuccess ==
    pc = "returned" =>
        IF result[1].success
        THEN /\ result[1].metadata_path \in DOMAIN metadata
             /\ metadata[result[1].metadata_path] # None
        ELSE metadata = <<>>
---------------------------------------------------------------------------
(* Interrupted runs.                                                       *)

\* C20: an interrupt that arrives at a suspension point of extract_book
\* (the browser launch included) leaves no browser session open: every
\* session opened has been closed when the interrupted run ends
C20_InterruptTearsDown ==
    pc = "interrupted" => opened = closed
---------------------------------------------------------------------------
(* The exit status of main.py.                                             *)

\* extract_multiple_books returned its summary
BatchCompleted == results # None /\ "success_rate" \in DOMAIN results[1]

\* C21: the exit status is zero on full success and non-zero when a single
\* extraction fails; a batch that completes with a failed item exits
\* non-zero without --continue-on-error and zero with it, and in both cases
\* every item has been processed (the disk not failing on batch_results.json)
C21_ExitStatus ==
    pc = "exited" =>
        /\ command = "extract" =>
              (exit_status = Some(0) <=> (result # None /\ result[1].success))
        /\ (command = "batch-extract" /\ BatchCompleted /\ NoDiskFault) =>
              /\ Len(run_log) = Len(urls)
              /\ exit_status = Some(0) <=>
                    (results[1].failed_extractions = <<>> \/ continue_on_error)
---------------------------------------------------------------------------
(* PDF files.                                                              *)

\* C22: a run of extract_book that returns success=False has created or
\* overwritten no PDF: no file is under pdfs/ when such a run has returned
C22_PdfOnlyOnSuccess ==
    (pc = "returned" /\ ~result[1].success) => pdfs = <<>>
====
